---- MODULE Spec2Model ----
(***************************************************************************)
(* Model of finn.custom_op.fpgadataflow.thresholding_binary_search:        *)
(* the Thresholding_Bin_Search operator descriptor.  One node (its         *)
(* attribute store and its name), the generation directory it writes the   *)
(* rendered RTL templates to, and the value or exception the last call on  *)
(* the node returned.                                                      *)
(*                                                                         *)
(* Text is a sequence of tokens: "$" is the placeholder delimiter, every   *)
(* other token is a run of characters without "$".  "$C$" is the sequence  *)
(* <<"$", "C", "$">>, so substring search, overlap and the order of        *)
(* replacements behave as on characters.                                   *)
(***************************************************************************)
EXTENDS Integers, Sequences, FiniteSets, TLC

VARIABLES
    name,     \* self.onnx_node.name, as text
    attrs,    \* the node's attribute store, read by get_nodeattr
    files,    \* the directory code_gen_dir_ipgen: file name -> content
    ret,      \* the last call: its name, arguments, exception and return value
    rerun     \* TRUE iff the last two calls were both successful generate_hdl

vars == <<name, attrs, files, ret, rerun>>

\* ------------------------------------------------------------ bounds
MaxChannels == 10     \* NumChannels tried by the shape functions: 0..MaxChannels
MaxPE == 3            \* PE tried by the shape functions: 0..MaxPE
MaxSteps == 3         \* numSteps: 1..MaxSteps
MaxGenChannels == 2   \* NumChannels tried by the generation calls: 1..MaxGenChannels

\* ------------------------------------------------------------ values
None == "None"

NodeNames == { <<"Thresholding_Binary_Search_0">>, <<"Thresholding_Bin_Search_0">> }

NumChannelsValues == 0..MaxChannels \cup {64}
PEValues == 0..MaxPE \cup {8}
numStepsValues == 1..MaxSteps
DataTypeNames == {"INT8", "UINT4"}
numInputVectorsValues == { <<1>>, <<1, 4, 4>> }
CodeGenDir == "code_gen_ipgen_dir"
FinnRoot == "FINN_ROOT"

\* the allowed-value sets of the schema
mem_mode_allowed == {"const", "decoupled"}
runtime_writeable_weights_allowed == {0, 1}

\* qonnx DataType[name].bitwidth()
bitwidth(data_type) ==
    CASE data_type = "INT8" -> 8
      [] data_type = "UINT4" -> 4
      [] data_type = "BIPOLAR" -> 1

\* the attributes a caller sets before it asks for shapes and widths, with
\* the values tried for each ("external" is outside mem_mode's allowed set)
ShapeAttrValues ==
    [ NumChannels |-> NumChannelsValues,
      PE |-> PEValues,
      numSteps |-> numStepsValues,
      weightDataType |-> DataTypeNames,
      numInputVectors |-> numInputVectorsValues,
      mem_mode |-> mem_mode_allowed \cup {"external"} ]

\* the attributes a caller sets before generation
GenAttrValues ==
    [ NumChannels |-> 1..MaxGenChannels,
      weightDataType |-> DataTypeNames,
      mem_mode |-> mem_mode_allowed \cup {"external"},
      runtime_writeable_weights |-> runtime_writeable_weights_allowed ]

AllAttrValues ==
    [ NumChannels |-> NumChannelsValues,
      PE |-> PEValues,
      numSteps |-> numStepsValues,
      weightDataType |-> DataTypeNames,
      numInputVectors |-> numInputVectorsValues,
      mem_mode |-> mem_mode_allowed \cup {"external"},
      runtime_writeable_weights |-> runtime_writeable_weights_allowed ]

\* get_nodeattr_types: the allowed-value set of an attribute, if it has one
HasAllowedSet(attr) == attr \in {"mem_mode", "runtime_writeable_weights"}
AllowedSet(attr) ==
    IF attr = "mem_mode" THEN mem_mode_allowed ELSE runtime_writeable_weights_allowed

get_nodeattr(attr) == attrs[attr]

\* HLSCustomOp.get_verilog_top_module_name: the node's name
get_verilog_top_module_name == name

\* ------------------------------------------------------------ shapes
\* MUTANT of calc_tmem_floordiv: the remainder instead of the quotient
calc_tmem_modulo(num_channels, pe) == num_channels % pe

\* num_channels // pe
calc_tmem_floordiv(num_channels, pe) == num_channels \div pe

\* calc_tmem: num_channels // pe; ZeroDivisionError when pe = 0
calc_tmem ==
    LET num_channels == get_nodeattr("NumChannels")
        pe == get_nodeattr("PE")
    IN  IF pe = 0
        THEN [exc |-> "ZeroDivisionError", val |-> None]
        ELSE [exc |-> None, val |-> calc_tmem_floordiv(num_channels, pe)]

get_folded_input_shape ==
    LET fold == calc_tmem
        pe == get_nodeattr("PE")
        vecs == get_nodeattr("numInputVectors")
    IN  IF fold.exc # None
        THEN fold
        ELSE [exc |-> None, val |-> vecs \o <<fold.val, pe>>]

get_normal_input_shape ==
    LET num_channels == get_nodeattr("NumChannels")
        vecs == get_nodeattr("numInputVectors")
    IN  [exc |-> None, val |-> vecs \o <<num_channels>>]

\* MUTANT of get_folded_output_shape: the unfolded shape
get_folded_output_shape_unfolded == get_normal_input_shape

get_folded_output_shape == get_folded_input_shape

get_normal_output_shape == get_normal_input_shape

get_weight_datatype == get_nodeattr("weightDataType")

\* MUTANT of get_weightstream_width: the number of steps left out
get_weightstream_width_one_step ==
    IF get_nodeattr("mem_mode") = "decoupled"
    THEN LET pe == get_nodeattr("PE")
             wp == bitwidth(get_weight_datatype)
         IN  [exc |-> None, val |-> pe * wp]
    ELSE [exc |-> None, val |-> 0]

get_weightstream_width ==
    IF get_nodeattr("mem_mode") = "decoupled"
    THEN LET pe == get_nodeattr("PE")
             wp == bitwidth(get_weight_datatype)
             n_thres_steps == get_nodeattr("numSteps")
         IN  [exc |-> None, val |-> pe * wp * n_thres_steps]
    ELSE [exc |-> None, val |-> 0]

\* ------------------------------------------------------------ weight file
\* make_weight_file: the body is a bare return
make_weight_file(weights_shape, weight_file_mode, weight_file_name) ==
    [exc |-> None, val |-> None]

\* ------------------------------------------------------------ templates
\* the placeholder keys, as token sequences
K_MODULE_NAME == <<"$", "MODULE_NAME", "$">>
K_MODULE_NAME_AXI == <<"$", "MODULE_NAME", "_AXI", "$">>
K_MODULE_NAME_AXI_WRAPPER == <<"$", "MODULE_NAME", "_AXI", "_WRAPPER", "$">>
K_TOP_MODULE == <<"$", "TOP_MODULE", "$">>
K_N == <<"$", "N", "$">>
K_M == <<"$", "M", "$">>
K_C == <<"$", "C", "$">>

\* conv_datatype_to_str: str(int) for an int, else the bit-width of the named
\* type as a string.  is_int is isinstance(data_type, int).
conv_datatype_to_str(data_type, is_int) ==
    IF is_int
    THEN <<ToString(data_type)>>
    ELSE <<ToString(bitwidth(data_type))>>

\* MUTANT of top_module_value: the bus-wrapped module taken for the top
top_module_value_axi == <<get_verilog_top_module_name \o <<"_axi">>>>

\* the value prepare_codegen_rtl_values gives "$TOP_MODULE$": the same list as
\* "$MODULE_NAME_AXI_WRAPPER$"
top_module_value == <<get_verilog_top_module_name \o <<"_axi_wrapper">>>>

\* prepare_codegen_rtl_values: the dictionary in insertion order, each value a
\* list of lines
prepare_codegen_rtl_values ==
    LET output_data_type == get_nodeattr("outputDataType")
        input_data_type == get_nodeattr("weightDataType")
        num_channels == get_nodeattr("NumChannels")
    IN  << [key |-> K_MODULE_NAME, value |-> <<get_verilog_top_module_name>>],
           [key |-> K_MODULE_NAME_AXI,
            value |-> <<get_verilog_top_module_name \o <<"_axi">>>>],
           [key |-> K_MODULE_NAME_AXI_WRAPPER,
            value |-> <<get_verilog_top_module_name \o <<"_axi_wrapper">>>>],
           [key |-> K_TOP_MODULE, value |-> top_module_value],
           [key |-> K_N, value |-> <<conv_datatype_to_str(output_data_type, FALSE)>>],
           [key |-> K_M, value |-> <<conv_datatype_to_str(input_data_type, FALSE)>>],
           [key |-> K_C, value |-> <<conv_datatype_to_str(num_channels, TRUE)>>] >>

\* code_gen_dict[key]
DictValue(code_gen_dict, key) ==
    LET i == CHOOSE j \in 1..Len(code_gen_dict) : code_gen_dict[j].key = key
    IN  code_gen_dict[i].value

get_rtl_file_list ==
    <<"thresholding.sv", "thresholding_axi.sv", "thresholding_axi_wrapper.v">>

\* a path is the sequence of its components
get_rtl_file_paths ==
    LET rtl_root_dir == <<FinnRoot, "finn-rtllib", "thresholding", "hdl">>
    IN  [i \in 1..Len(get_rtl_file_list) |-> rtl_root_dir \o <<get_rtl_file_list[i]>>]

\* the template files of finn-rtllib/thresholding/hdl
RtlTemplates ==
    [ f \in {get_rtl_file_list[i] : i \in 1..Len(get_rtl_file_list)} |->
        CASE f = "thresholding.sv" ->
               <<"module ">> \o K_MODULE_NAME \o <<" #(N, K, C);">>
          [] f = "thresholding_axi.sv" ->
               <<"module ">> \o K_MODULE_NAME_AXI \o <<" #(N, K, C); ">>
               \o K_MODULE_NAME \o <<" impl();">>
          [] f = "thresholding_axi_wrapper.v" ->
               <<"module ">> \o K_MODULE_NAME_AXI_WRAPPER \o <<" N=">> \o K_N
               \o <<" K=">> \o K_M \o <<" C=">> \o K_C \o <<"; ">>
               \o K_MODULE_NAME_AXI \o <<" inst(); // top ">> \o K_TOP_MODULE ]

\* get_rtl_template_data: the text of the file at path
get_rtl_template_data(path) == RtlTemplates[path[Len(path)]]

\* "\n".join(lines)
RECURSIVE join_lines(_)
join_lines(lines) ==
    IF Len(lines) = 0 THEN <<>>
    ELSE IF Len(lines) = 1 THEN lines[1]
    ELSE lines[1] \o <<"\n">> \o join_lines(Tail(lines))

MatchesAt(s, i, old) ==
    /\ i + Len(old) - 1 <= Len(s)
    /\ \A j \in 1..Len(old) : s[i + j - 1] = old[j]

\* str.replace(old, new) from position i on: the non-overlapping occurrences
\* of old, leftmost first
RECURSIVE str_replace_from(_, _, _, _)
str_replace_from(s, old, new, i) ==
    IF i > Len(s) THEN <<>>
    ELSE IF MatchesAt(s, i, old)
         THEN new \o str_replace_from(s, old, new, i + Len(old))
         ELSE <<s[i]>> \o str_replace_from(s, old, new, i + 1)

str_replace(s, old, new) == str_replace_from(s, old, new, 1)

\* the loop of fill_in_rtl_template_data from the k-th key on
RECURSIVE fill_in_from(_, _, _)
fill_in_from(replace_dict, template_data_cp, k) ==
    IF k > Len(replace_dict) THEN template_data_cp
    ELSE LET replacement_line == join_lines(replace_dict[k].value)
         IN  fill_in_from(replace_dict,
                          str_replace(template_data_cp, replace_dict[k].key,
                                      replacement_line),
                          k + 1)

fill_in_rtl_template_data(replace_dict, template_data) ==
    fill_in_from(replace_dict, template_data, 1)

\* MUTANT of dump_rtl_data: the file opened for appending
dump_rtl_data_append(dir, filename, data) ==
    [f \in DOMAIN dir \cup {filename} |->
        IF f # filename THEN dir[f]
        ELSE IF filename \in DOMAIN dir THEN dir[f] \o data ELSE data]

\* dump_rtl_data: the directory with filename holding data
dump_rtl_data(dir, filename, data) ==
    [f \in DOMAIN dir \cup {filename} |-> IF f = filename THEN data ELSE dir[f]]

\* The I/O steps of generate_hdl, in order: read template 1, write file 1,
\* read template 2, ...  fail = 0: none raises; fail = k: step k raises
\* IOError and leaves the file system as it was.
IOSteps == 2 * Len(get_rtl_file_list)
ReadStep(i) == 2 * i - 1
WriteStep(i) == 2 * i

\* the loop of generate_hdl from the i-th template on
RECURSIVE generate_hdl_loop(_, _, _, _)
generate_hdl_loop(dir, code_gen_dict, i, fail) ==
    IF i > Len(get_rtl_file_paths) THEN [exc |-> None, dir |-> dir]
    ELSE IF fail = ReadStep(i) THEN [exc |-> "IOError", dir |-> dir]
    ELSE LET rtl_file_path == get_rtl_file_paths[i]
             template_data == get_rtl_template_data(rtl_file_path)
             data == fill_in_rtl_template_data(code_gen_dict, template_data)
             file_only_path == rtl_file_path[Len(rtl_file_path)]
         IN  IF fail = WriteStep(i) THEN [exc |-> "IOError", dir |-> dir]
             ELSE generate_hdl_loop(dump_rtl_data(dir, file_only_path, data),
                                    code_gen_dict, i + 1, fail)

\* generate_hdl: the directory and the attributes after the call
generate_hdl(fail) ==
    LET code_gen_dict == prepare_codegen_rtl_values
        done == generate_hdl_loop(files, code_gen_dict, 1, fail)
    IN  IF done.exc # None
        THEN [exc |-> done.exc, dir |-> done.dir, attrs |-> attrs]
        ELSE [exc |-> None, dir |-> done.dir,
              attrs |-> [attrs EXCEPT !.gen_top_module =
                                         DictValue(code_gen_dict, K_TOP_MODULE)[1]]]

\* code_generation_ipgen: generate_hdl, generate_params (a bare return), then
\* ipgen_path and ip_path
code_generation_ipgen(fail) ==
    LET hdl == generate_hdl(fail)
        code_gen_dir == hdl.attrs.code_gen_dir_ipgen
    IN  IF hdl.exc # None THEN hdl
        ELSE [hdl EXCEPT !.attrs = [hdl.attrs EXCEPT !.ipgen_path = code_gen_dir,
                                                     !.ip_path = code_gen_dir]]

\* ------------------------------------------------------------ integration
\* the instance the property commands of code_generation_ipi name
BdIntfInstance == <<"Thresholding_Binary_Search_0">>

FREQ_HZ == 200000000

\* MUTANT of code_generation_ipi: the module instantiated before its last
\* source file is registered
code_generation_ipi_instantiate_early ==
    LET code_gen_dir == get_nodeattr("code_gen_dir_ipgen")
        rtl_file_list == get_rtl_file_list
    IN  << [cmd |-> "add_files", path |-> <<code_gen_dir, rtl_file_list[1]>>],
           [cmd |-> "add_files", path |-> <<code_gen_dir, rtl_file_list[2]>>],
           [cmd |-> "create_bd_cell", reference |-> get_nodeattr("gen_top_module"),
            name |-> name],
           [cmd |-> "add_files", path |-> <<code_gen_dir, rtl_file_list[3]>>],
           [cmd |-> "set_property", freq_hz |-> FREQ_HZ,
            instance |-> BdIntfInstance, pin |-> "s_axis"],
           [cmd |-> "set_property", freq_hz |-> FREQ_HZ,
            instance |-> BdIntfInstance, pin |-> "m_axis"] >>

\* code_generation_ipi: the command list; a command is a record of the
\* command word and the values formatted into it
code_generation_ipi ==
    LET code_gen_dir == get_nodeattr("code_gen_dir_ipgen")
        rtl_file_list == get_rtl_file_list
    IN  << [cmd |-> "add_files", path |-> <<code_gen_dir, rtl_file_list[1]>>],
           [cmd |-> "add_files", path |-> <<code_gen_dir, rtl_file_list[2]>>],
           [cmd |-> "add_files", path |-> <<code_gen_dir, rtl_file_list[3]>>],
           [cmd |-> "create_bd_cell", reference |-> get_nodeattr("gen_top_module"),
            name |-> name],
           [cmd |-> "set_property", freq_hz |-> FREQ_HZ,
            instance |-> BdIntfInstance, pin |-> "s_axis"],
           [cmd |-> "set_property", freq_hz |-> FREQ_HZ,
            instance |-> BdIntfInstance, pin |-> "m_axis"] >>

\* ------------------------------------------------------------ state machine
\* What the caller of the last call on the node saw.  A return value is held
\* in the field of its Python type (int, tuple or list) and the other fields
\* are empty; a call that raised, or returned None, leaves all three empty.
NoArgs == [weights_shape |-> <<>>, weight_file_mode |-> ""]

Returned(op, args, exc, int, tuple, list) ==
    [op |-> op, args |-> args, exc |-> exc, int |-> int, tuple |-> tuple, list |-> list]

ReturnedNone(op, args, r) == Returned(op, args, r.exc, 0, <<>>, <<>>)
ReturnedInt(op, r) ==
    Returned(op, NoArgs, r.exc, IF r.exc = None THEN r.val ELSE 0, <<>>, <<>>)
ReturnedTuple(op, r) ==
    Returned(op, NoArgs, r.exc, 0, IF r.exc = None THEN r.val ELSE <<>>, <<>>)
ReturnedList(op, r) ==
    Returned(op, NoArgs, r.exc, 0, <<>>, IF r.exc = None THEN r.val ELSE <<>>)

\* the node as constructed: the required attributes given, the others at the
\* defaults of get_nodeattr_types, nothing generated
InitFrom(names, values) ==
    /\ name \in names
    /\ \E nc \in values.NumChannels, pe \in values.PE, ns \in values.numSteps,
          wdt \in values.weightDataType :
         attrs = [ NumChannels |-> nc, PE |-> pe, numSteps |-> ns,
                   weightDataType |-> wdt, outputDataType |-> "UINT4",
                   numInputVectors |-> <<1>>,
                   mem_mode |-> "const",
                   runtime_writeable_weights |-> 0,
                   gen_top_module |-> <<>>,
                   code_gen_dir_ipgen |-> CodeGenDir,
                   ipgen_path |-> "", ip_path |-> "" ]
    /\ files = [f \in {} |-> <<>>]
    /\ ret = ReturnedNone("__init__", NoArgs, [exc |-> None])
    /\ rerun = FALSE

\* set_nodeattr(attr, value): validated against the allowed-value set
SetNodeAttr(values) ==
    \E attr \in DOMAIN values : \E value \in values[attr] :
        /\ IF HasAllowedSet(attr) /\ value \notin AllowedSet(attr)
           THEN /\ attrs' = attrs
                /\ ret' = ReturnedNone("set_nodeattr", NoArgs,
                                       [exc |-> "ValidationError"])
           ELSE /\ attrs' = [attrs EXCEPT ![attr] = value]
                /\ ret' = ReturnedNone("set_nodeattr", NoArgs, [exc |-> None])
        /\ rerun' = FALSE
        /\ UNCHANGED <<name, files>>

\* a call that changes nothing on the node
Query(returned) ==
    /\ ret' = returned
    /\ rerun' = FALSE
    /\ UNCHANGED <<name, attrs, files>>

CalcTmem == Query(ReturnedInt("calc_tmem", calc_tmem))
GetFoldedInputShape ==
    Query(ReturnedTuple("get_folded_input_shape", get_folded_input_shape))
GetFoldedOutputShape ==
    Query(ReturnedTuple("get_folded_output_shape", get_folded_output_shape))
GetNormalInputShape ==
    Query(ReturnedTuple("get_normal_input_shape", get_normal_input_shape))
GetNormalOutputShape ==
    Query(ReturnedTuple("get_normal_output_shape", get_normal_output_shape))
GetWeightstreamWidth ==
    Query(ReturnedInt("get_weightstream_width", get_weightstream_width))

\* the threshold arrays and mode selectors handed to make_weight_file
WeightShapes ==
    { <<attrs.NumChannels, attrs.numSteps>>,
      <<attrs.numSteps, attrs.NumChannels>>,
      <<attrs.NumChannels + 1, attrs.numSteps>> }
WeightFileModes == {"hls_header", "decoupled_verilog_dat", "decoupled_runtime"}

MakeWeightFile ==
    \E weights_shape \in WeightShapes, mode \in WeightFileModes \cup {"npy"} :
        Query(ReturnedNone("make_weight_file",
                           [weights_shape |-> weights_shape, weight_file_mode |-> mode],
                           make_weight_file(weights_shape, mode, "thresholds.dat")))

GenerateHdl ==
    \E fail \in 0..IOSteps :
        LET r == generate_hdl(fail)
        IN  /\ files' = r.dir
            /\ attrs' = r.attrs
            /\ ret' = ReturnedNone("generate_hdl", NoArgs, r)
            /\ rerun' = (r.exc = None /\ ret.op = "generate_hdl" /\ ret.exc = None)
            /\ UNCHANGED name

CodeGenerationIpgen ==
    \E fail \in 0..IOSteps :
        LET r == code_generation_ipgen(fail)
        IN  /\ files' = r.dir
            /\ attrs' = r.attrs
            /\ ret' = ReturnedNone("code_generation_ipgen", NoArgs, r)
            /\ rerun' = FALSE
            /\ UNCHANGED name

CodeGenerationIpi ==
    Query(ReturnedList("code_generation_ipi",
                       [exc |-> None, val |-> code_generation_ipi]))

\* shapes, widths and weight files of a node whose attributes change
InitShape == InitFrom(NodeNames, ShapeAttrValues)

NextShape ==
    \/ SetNodeAttr(ShapeAttrValues)
    \/ CalcTmem
    \/ GetFoldedInputShape
    \/ GetFoldedOutputShape
    \/ GetNormalInputShape
    \/ GetNormalOutputShape
    \/ GetWeightstreamWidth
    \/ MakeWeightFile

SpecShape == InitShape /\ [][NextShape]_vars

\* generation and integration of a node whose attributes change
GenInitValues ==
    [ NumChannels |-> GenAttrValues.NumChannels, PE |-> {1}, numSteps |-> {1},
      weightDataType |-> GenAttrValues.weightDataType ]

InitGen == InitFrom(NodeNames, GenInitValues)

NextGen ==
    \/ SetNodeAttr(GenAttrValues)
    \/ GenerateHdl
    \/ CodeGenerationIpgen
    \/ CodeGenerationIpi

SpecGen == InitGen /\ [][NextGen]_vars

\* every call on every node
Init == InitFrom(NodeNames, AllAttrValues)

Next ==
    \/ SetNodeAttr(AllAttrValues)
    \/ CalcTmem
    \/ GetFoldedInputShape
    \/ GetFoldedOutputShape
    \/ GetNormalInputShape
    \/ GetNormalOutputShape
    \/ GetWeightstreamWidth
    \/ MakeWeightFile
    \/ GenerateHdl
    \/ CodeGenerationIpgen
    \/ CodeGenerationIpi

Spec == Init /\ [][Next]_vars

\* ------------------------------------------------------------ claims
Divisible == attrs.NumChannels > 0 /\ attrs.PE > 0 /\ attrs.NumChannels % attrs.PE = 0
NonDivisible == attrs.NumChannels > 0 /\ attrs.PE > 0 /\ attrs.NumChannels % attrs.PE # 0

\* C1: when NumChannels > 0, PE > 0 and PE does not divide NumChannels,
\* calc_tmem and the folded-shape functions built on it raise ConfigError
\* instead of returning the truncated quotient.
C1_NonDivisibleRejected ==
    (/\ ret.op \in {"calc_tmem", "get_folded_input_shape", "get_folded_output_shape"}
     /\ NonDivisible)
    => ret.exc = "ConfigError"

\* the text generate_hdl writes to file f under the current attributes
RenderedNow(f) ==
    fill_in_rtl_template_data(prepare_codegen_rtl_values, RtlTemplates[f])

GenerationOps == {"generate_hdl", "code_generation_ipgen"}

\* C2: a generation call that fails leaves the generation directory either
\* unchanged or holding all three files as this call renders them, never a
\* mix of the two.
C2_FailedGenerationAllOrNothing ==
    [][ (ret'.op \in GenerationOps /\ ret'.exc # None)
        => \/ files' = files
           \/ /\ DOMAIN files' = DOMAIN RtlTemplates
              /\ \A f \in DOMAIN RtlTemplates : files'[f] = RenderedNow(f) ]_vars

ExpectedRtlFiles ==
    <<"thresholding.sv", "thresholding_axi.sv", "thresholding_axi_wrapper.v">>

\* C3: the command list of code_generation_ipi is one add_files command per
\* generated file, in the order thresholding.sv, thresholding_axi.sv,
\* thresholding_axi_wrapper.v, then exactly one create_bd_cell command, then
\* one set_property (FREQ_HZ) command for s_axis and one for m_axis; no
\* add_files follows the create_bd_cell and no set_property precedes it.
C3_CommandOrder ==
    ret.op = "code_generation_ipi" =>
        LET cmd == ret.list
            nf == Len(ExpectedRtlFiles)
        IN  /\ ret.exc = None
            /\ Len(cmd) = nf + 3
            /\ \A i \in 1..nf :
                 /\ cmd[i].cmd = "add_files"
                 /\ cmd[i].path = <<attrs.code_gen_dir_ipgen, ExpectedRtlFiles[i]>>
            /\ cmd[nf + 1].cmd = "create_bd_cell"
            /\ cmd[nf + 2].cmd = "set_property" /\ cmd[nf + 2].pin = "s_axis"
            /\ cmd[nf + 3].cmd = "set_property" /\ cmd[nf + 3].pin = "m_axis"
            /\ Cardinality({i \in 1..Len(cmd) : cmd[i].cmd = "create_bd_cell"}) = 1
            /\ \A i, j \in 1..Len(cmd) :
                 /\ (cmd[i].cmd = "add_files" /\ cmd[j].cmd = "create_bd_cell") => i < j
                 /\ (cmd[i].cmd = "create_bd_cell" /\ cmd[j].cmd = "set_property") => i < j

C3_Witness ==
    /\ ret.op = "code_generation_ipi"
    /\ Len(ret.list) = 6
    /\ attrs.gen_top_module # <<>>
    /\ ret.list[4].reference = attrs.gen_top_module

\* C4: when NumChannels > 0 and PE > 0 divides it, calc_tmem returns the
\* exact quotient NumChannels / PE, and get_folded_input_shape returns
\* numInputVectors followed by (tmem, PE).
C4_FoldedShapeDivisible ==
    /\ (ret.op = "calc_tmem" /\ Divisible)
       => (ret.exc = None /\ ret.int * attrs.PE = attrs.NumChannels)
    /\ (ret.op = "get_folded_input_shape" /\ Divisible)
       => /\ ret.exc = None
          /\ \E tmem \in 1..attrs.NumChannels :
               /\ tmem * attrs.PE = attrs.NumChannels
               /\ ret.tuple = attrs.numInputVectors \o <<tmem, attrs.PE>>

\* NumChannels=64, PE=8, numInputVectors=[1] gives (1, 8, 8)
C4_Witness ==
    /\ ret.op = "get_folded_input_shape"
    /\ attrs.NumChannels = 64 /\ attrs.PE = 8 /\ attrs.numInputVectors = <<1>>
    /\ ret.tuple = <<1, 8, 8>>

\* C5: for PE > 0, numSteps >= 1 and a weight type of at least one bit,
\* get_weightstream_width returns 0 exactly when mem_mode is const, and in
\* decoupled mode returns bitwidth(weightDataType) * PE * numSteps.
C5_WeightstreamWidth ==
    (/\ ret.op = "get_weightstream_width"
     /\ attrs.PE > 0 /\ attrs.numSteps >= 1 /\ bitwidth(attrs.weightDataType) >= 1)
    => /\ ret.exc = None
       /\ (ret.int = 0) <=> (attrs.mem_mode = "const")
       /\ (attrs.mem_mode = "decoupled")
          => (ret.int = bitwidth(attrs.weightDataType) * attrs.PE * attrs.numSteps)

\* bit-width 8, PE=8, numSteps=3 gives 192
C5_Witness ==
    /\ ret.op = "get_weightstream_width"
    /\ attrs.mem_mode = "decoupled"
    /\ attrs.weightDataType = "INT8" /\ attrs.PE = 8 /\ attrs.numSteps = 3
    /\ ret.int = 192

\* C6: a generation call on a configuration with mem_mode = const and
\* runtime_writeable_weights = 1 raises ConfigError and writes nothing.
C6_ConstWritableRejected ==
    (/\ ret.op \in GenerationOps
     /\ attrs.mem_mode = "const"
     /\ attrs.runtime_writeable_weights = 1)
    => ret.exc = "ConfigError"

AllGenerated == DOMAIN files = DOMAIN RtlTemplates

\* C7: a successful generate_hdl that directly follows a successful
\* generate_hdl, nothing having been set in between, leaves every generated
\* file with the content it had after the first.
C7_RegenerationIdentical ==
    [][ (/\ ret.op = "generate_hdl" /\ ret.exc = None
         /\ ret'.op = "generate_hdl" /\ ret'.exc = None)
        => files' = files ]_vars

C7_Witness ==
    /\ rerun
    /\ ret.op = "generate_hdl" /\ ret.exc = None
    /\ AllGenerated
    /\ \A f \in DOMAIN files : files[f] = RenderedNow(f)

\* C8: make_weight_file raises InvalidShapeError for an array whose shape is
\* not (NumChannels, numSteps) and InvalidModeError for a mode outside the
\* three recognized ones; it returns normally in neither case.
C8_WeightFileRejects ==
    ret.op = "make_weight_file" =>
        LET bad_shape == ret.args.weights_shape # <<attrs.NumChannels, attrs.numSteps>>
            bad_mode == ret.args.weight_file_mode \notin WeightFileModes
        IN  /\ (bad_shape /\ ~bad_mode) => ret.exc = "InvalidShapeError"
            /\ (bad_mode /\ ~bad_shape) => ret.exc = "InvalidModeError"
            /\ (bad_shape /\ bad_mode)
               => ret.exc \in {"InvalidShapeError", "InvalidModeError"}

\* C9: whatever the attributes have been set to, get_folded_output_shape
\* returns what get_folded_input_shape returns for the current attributes,
\* numInputVectors ++ [NumChannels // PE, PE] when PE > 0, and
\* get_normal_output_shape returns what get_normal_input_shape returns,
\* numInputVectors ++ [NumChannels].
C9_OutputShapeIsInputShape ==
    /\ ret.op = "get_folded_output_shape"
       => /\ ret.exc = get_folded_input_shape.exc
          /\ ret.exc = None => ret.tuple = get_folded_input_shape.val
          /\ attrs.PE > 0
             => (/\ ret.exc = None
                 /\ ret.tuple = attrs.numInputVectors
                              \o <<attrs.NumChannels \div attrs.PE, attrs.PE>>)
    /\ ret.op = "get_normal_output_shape"
       => /\ ret.exc = None
          /\ ret.tuple = get_normal_input_shape.val
          /\ ret.tuple = attrs.numInputVectors \o <<attrs.NumChannels>>

\* both output shapes of a node whose numInputVectors was set after
\* construction
C9_Witness ==
    /\ attrs.numInputVectors = <<1, 4, 4>>
    /\ attrs.NumChannels = 64 /\ attrs.PE = 8
    /\ \/ ret.op = "get_folded_output_shape" /\ ret.tuple = <<1, 4, 4, 8, 8>>
       \/ ret.op = "get_normal_output_shape" /\ ret.tuple = <<1, 4, 4, 64>>

\* C10: every set_property command of code_generation_ipi names a stream
\* interface of the instance the create_bd_cell command creates.
C10_PropertiesBindCreatedInstance ==
    ret.op = "code_generation_ipi" =>
        \A i, j \in 1..Len(ret.list) :
            (ret.list[i].cmd = "create_bd_cell" /\ ret.list[j].cmd = "set_property")
            => ret.list[j].instance = ret.list[i].name

\* the text of file f when "$TOP_MODULE$" is given the single line top and
\* every other placeholder its value under the current attributes
RenderedWithTop(f, top) ==
    LET d == prepare_codegen_rtl_values
        with_top == [k \in 1..Len(d) |->
                        IF d[k].key = K_TOP_MODULE
                        THEN [key |-> K_TOP_MODULE, value |-> <<top>>]
                        ELSE d[k]]
    IN  fill_in_rtl_template_data(with_top, RtlTemplates[f])

OuterWrapperName == name \o <<"_axi_wrapper">>

\* C11: after a successful generate_hdl (alone or inside
\* code_generation_ipgen) gen_top_module is the node's module name followed
\* by "_axi_wrapper", and it is the text that stands for "$TOP_MODULE$" in
\* the files the call wrote; gen_top_module is the empty string until a
\* generation call has succeeded, and the create_bd_cell command of
\* code_generation_ipi references gen_top_module.
C11_TopModuleIsOuterWrapper ==
    /\ (ret.op \in GenerationOps /\ ret.exc = None)
       => /\ attrs.gen_top_module = OuterWrapperName
          /\ AllGenerated
          /\ \A f \in DOMAIN files :
               files[f] = RenderedWithTop(f, attrs.gen_top_module)
    /\ attrs.gen_top_module # <<>>
       => (attrs.gen_top_module = OuterWrapperName /\ AllGenerated)
    /\ ret.op = "code_generation_ipi"
       => \A i \in 1..Len(ret.list) :
            ret.list[i].cmd = "create_bd_cell"
            => /\ ret.list[i].reference = attrs.gen_top_module
               /\ AllGenerated => ret.list[i].reference = OuterWrapperName

\* code_generation_ipi after a successful generation: the created cell
\* references the outer wrapper, whose name ends the generated wrapper file
C11_Witness ==
    /\ ret.op = "code_generation_ipi"
    /\ AllGenerated
    /\ ret.list[4].reference = OuterWrapperName
    /\ LET w == files["thresholding_axi_wrapper.v"]
       IN  SubSeq(w, Len(w) - Len(OuterWrapperName) + 1, Len(w)) = OuterWrapperName

\* the number of elements of a tensor of the given shape
RECURSIVE NumElements(_)
NumElements(shape) ==
    IF Len(shape) = 0 THEN 1 ELSE shape[1] * NumElements(Tail(shape))

\* C12: for NumChannels > 0 and PE > 0 the folded input shape holds as many
\* elements as the normal input shape, that is tmem * PE = NumChannels.
C12_FoldingPreservesElements ==
    (/\ ret.op = "get_folded_input_shape"
     /\ attrs.NumChannels > 0 /\ attrs.PE > 0)
    => /\ ret.exc = None
       /\ NumElements(ret.tuple) = NumElements(get_normal_input_shape.val)
       /\ ret.tuple[Len(ret.tuple) - 1] * attrs.PE = attrs.NumChannels
====
